---------------------------- MODULE Spec2Model ----------------------------
(***************************************************************************)
(* A model of src/pulsecore/source-output.c: the life cycle, the state     *)
(* machine, the push path and the relocation of a PulseAudio source output.*)
(*                                                                         *)
(* Every handler of the file is a function from a "world" (the heap of     *)
(* source outputs, the two idxsets they are registered in, the live        *)
(* resamplers, and the calls the handler made on its collaborators) to the *)
(* world after the call.  A failed assert() and a NULL dereference end the *)
(* process: the world keeps what the handler had written up to that point  *)
(* and no further call is made.                                            *)
(***************************************************************************)
EXTENDS Integers, Sequences, FiniteSets

(***************************************************************************)
(* Bounds of the model.                                                    *)
(***************************************************************************)
MaxOutputs == 2      \* source outputs ever allocated, where several are
MaxRef == 2          \* cap on o->ref
MaxIndex == 2        \* cap on the index counter of a per-source idxset
\* The ceiling on the members of a source.  The header that sets it is not
\* among the sources; the model scales it to what MaxOutputs can reach.
PA_MAX_OUTPUTS_PER_SOURCE == 1

Objects == 1..MaxOutputs
NumHandles == MaxOutputs + 1
Handles == 1..NumHandles         \* addresses a pa_resampler can live at

(***************************************************************************)
(* Values of the collaborators' types.                                     *)
(***************************************************************************)
NULL == 0
PA_IDXSET_INVALID == -1
PA_RESAMPLER_INVALID == -1

RUNNING == "RUNNING"
CORKED == "CORKED"
DISCONNECTED == "DISCONNECTED"

NoString == "<null>"
BadUtf8 == "<invalid utf8>"
CoreResampleMethod == 2          \* s->core->resample_method
\* What a caller of pa_source_output_new passes for driver, name and
\* resample_method.
Clients ==
    { [driver |-> NoString, name |-> "rec", method |-> PA_RESAMPLER_INVALID],
      [driver |-> "drv", name |-> "rec", method |-> 1],
      [driver |-> BadUtf8, name |-> "rec", method |-> 1],
      [driver |-> "drv", name |-> BadUtf8, method |-> 1] }
\* The names pa_source_output_set_name is called with.
NewNames == {"rec", "mon"}

\* pa_sample_spec: a rate of 0 is what pa_sample_spec_valid rejects.
SampleSpecs == {[rate |-> r, channels |-> c] : r \in {0, 44100}, c \in {1, 2}}
\* pa_channel_map: the positions of the channels; <<>> stands for a NULL map,
\* position 0 for PA_CHANNEL_POSITION_INVALID, 1 MONO, 2 LEFT, 3 RIGHT.
NoMap == <<>>
ChannelMaps == {NoMap, <<1>>, <<2, 3>>, <<0>>}

pa_sample_spec_valid(spec) == spec.rate > 0 /\ spec.channels > 0
pa_channel_map_valid(map) == Len(map) > 0 /\ \A i \in 1..Len(map) : map[i] # 0
pa_channel_map_init_auto(channels) == IF channels = 1 THEN <<1>> ELSE <<2, 3>>
pa_sample_spec_equal(a, b) == a.rate = b.rate /\ a.channels = b.channels
pa_channel_map_equal(a, b) == a = b
pa_utf8_valid(str) == str # BadUtf8

(***************************************************************************)
(* The sources of the core: two of the same shape and one of another.      *)
(***************************************************************************)
Sources == 1..3
Stereo == [rate |-> 44100, channels |-> 2]
Mono == [rate |-> 44100, channels |-> 1]
SourceSpec(s) == IF s = 3 THEN Mono ELSE Stereo
SourceMap(s) == IF s = 3 THEN <<1>> ELSE <<2, 3>>

(***************************************************************************)
(* pa_idxset: entries <<index, data>>; put hands out the next index.       *)
(***************************************************************************)
EmptyIdxset == [next |-> 0, entries |-> {}]
IdxsetHas(set, data) == \E e \in set.entries : e[2] = data
IdxsetIndexOf(set, data) ==
    IF IdxsetHas(set, data) THEN (CHOOSE e \in set.entries : e[2] = data)[1]
    ELSE PA_IDXSET_INVALID
pa_idxset_put(set, data) ==
    IF IdxsetHas(set, data) THEN set
    ELSE [next |-> set.next + 1, entries |-> set.entries \cup {<<set.next, data>>}]
pa_idxset_remove_by_data(set, data) ==
    [set EXCEPT !.entries = {e \in @ : e[2] # data}]
pa_idxset_size(set) == Cardinality(set.entries)

(***************************************************************************)
(* The state.                                                              *)
(***************************************************************************)
VARIABLES
    so,              \* the heap: address -> pa_source_output
    source_outputs,  \* core->source_outputs
    outputs,         \* s->outputs, per source
    resamplers,      \* the addresses of the live pa_resampler objects
    effects,         \* the collaborator calls the last handler made, in order
    delivered,       \* the chunks the last handler passed to o->push
    aborted,         \* "no", or how the process ended: "assert", "segv"
    call,            \* the last call: its name, object, argument and result
    rt               \* the pa_source_output_push under way in a context of its own

vars == <<so, source_outputs, outputs, resamplers, effects, delivered, aborted, call, rt>>

\* Memory that no pa_source_output has been allocated in.
Unborn == [alloc |-> "unborn", ref |-> 0, state |-> DISCONNECTED, index |-> PA_IDXSET_INVALID,
           name |-> NoString, driver |-> NoString, source |-> NULL,
           sample_spec |-> Stereo, channel_map |-> NoMap, push |-> FALSE,
           resampler |-> NULL, resample_method |-> PA_RESAMPLER_INVALID,
           destroyed |-> 0, disconnects |-> 0]

World == [so |-> so, source_outputs |-> source_outputs, outputs |-> outputs,
          resamplers |-> resamplers, effects |-> <<>>, delivered |-> <<>>,
          aborted |-> "no", ret |-> 0, found |-> TRUE]

Effect(e, k, x) == [e |-> e, k |-> k, x |-> x]
Do(w, e, k, x) == [w EXCEPT !.effects = Append(@, Effect(e, k, x))]
Abort(w, how) == [w EXCEPT !.aborted = how]
Return(w, r) == [w EXCEPT !.ret = r]

\* What a subscriber that looks the subject of an event up finds: the entry
\* of the registry under the index, in the member set of its source.
Registered(w, index) ==
    \E e \in w.source_outputs.entries :
        /\ e[1] = index
        /\ w.so[e[2]].source # NULL
        /\ IdxsetHas(w.outputs[w.so[e[2]].source], e[2])
\* The subscribers of PA_SUBSCRIPTION_EVENT_NEW are called with the index.
pa_subscription_post(w, kind, index) ==
    Do([w EXCEPT !.found = @ /\ (kind = "NEW" => Registered(w, index))], "post", kind, index)
pa_source_notify(w, s) == Do(w, "notify", "", s)

\* malloc: the lowest address no live resampler occupies.
FreeHandle(w) == CHOOSE h \in Handles : h \notin w.resamplers /\ \A g \in Handles : g < h => g \in w.resamplers
pa_resampler_new(w) ==
    Do([w EXCEPT !.resamplers = @ \cup {FreeHandle(w)}], "resampler_new", "", FreeHandle(w))
\* Freeing an address that holds no live resampler is undefined: the process
\* dies in free() (crash) or goes on.
pa_resampler_free(w, h, crash) ==
    IF h \notin w.resamplers /\ crash THEN Abort(w, "segv")
    ELSE Do([w EXCEPT !.resamplers = @ \ {h}], "resampler_free", "", h)

(***************************************************************************)
(* pa_source_output_new                                                    *)
(***************************************************************************)
\* Mutant: the channel count of the map is compared with the source's.
NewValid_SourceChannels(s, driver, name, spec, map0) ==
    LET map == IF map0 = NoMap THEN pa_channel_map_init_auto(spec.channels) ELSE map0
    IN  /\ pa_sample_spec_valid(spec)
        /\ pa_channel_map_valid(map)
        /\ Len(map) = SourceSpec(s).channels
        /\ (driver = NoString \/ pa_utf8_valid(driver))
        /\ pa_utf8_valid(name)

NewValid(s, driver, name, spec, map0) ==
    LET map == IF map0 = NoMap THEN pa_channel_map_init_auto(spec.channels) ELSE map0
    IN  /\ pa_sample_spec_valid(spec)
        /\ pa_channel_map_valid(map)
        /\ Len(map) = spec.channels
        /\ (driver = NoString \/ pa_utf8_valid(driver))
        /\ pa_utf8_valid(name)

NewNeedsResampler(s, spec, map) ==
    \/ ~pa_sample_spec_equal(SourceSpec(s), spec)
    \/ ~pa_channel_map_equal(SourceMap(s), map)

\* Mutant: the index the registry assigns is not stored in o->index.
NewRegister_NoIndex(w, o, s) ==
    LET put == pa_idxset_put(w.source_outputs, o)
        idx == IdxsetIndexOf(put, o)
        w1 == [w EXCEPT !.source_outputs = put, !.outputs[s] = pa_idxset_put(@, o)]
    IN  pa_subscription_post(w1, "NEW", idx)

\* Mutant: NEW is posted once the output is in the registry, before it is
\* put into s->outputs.
NewRegister_PostsEarly(w, o, s) ==
    LET put == pa_idxset_put(w.source_outputs, o)
        idx == IdxsetIndexOf(put, o)
        w1 == [w EXCEPT !.source_outputs = put, !.so[o].index = idx]
        w2 == pa_subscription_post(w1, "NEW", idx)
    IN  [w2 EXCEPT !.outputs[s] = pa_idxset_put(@, o)]

NewRegister(w, o, s) ==
    LET put == pa_idxset_put(w.source_outputs, o)
        idx == IdxsetIndexOf(put, o)
        w1 == [w EXCEPT !.source_outputs = put, !.so[o].index = idx,
                        !.outputs[s] = pa_idxset_put(@, o)]
    IN  pa_subscription_post(w1, "NEW", idx)

\* Mutant: the ceiling is compared with > instead of >=.
NewFull_OffByOne(w, s) == pa_idxset_size(w.outputs[s]) > PA_MAX_OUTPUTS_PER_SOURCE

\* "too many outputs per source"
NewFull(w, s) == pa_idxset_size(w.outputs[s]) >= PA_MAX_OUTPUTS_PER_SOURCE

pa_source_output_new(w, o, s, driver, name, spec, map0, method0, supported) ==
    LET map == IF map0 = NoMap THEN pa_channel_map_init_auto(spec.channels) ELSE map0
        method == IF method0 = PA_RESAMPLER_INVALID THEN CoreResampleMethod ELSE method0
        need == NewNeedsResampler(s, spec, map)
        w1 == IF need THEN pa_resampler_new(w) ELSE w
        obj == [alloc |-> "live", ref |-> 1, state |-> RUNNING, index |-> PA_IDXSET_INVALID,
                name |-> name, driver |-> driver, source |-> s,
                sample_spec |-> spec, channel_map |-> map, push |-> FALSE,
                resampler |-> IF need THEN FreeHandle(w) ELSE NULL,
                resample_method |-> method, destroyed |-> 0, disconnects |-> 0]
    IN  IF ~NewValid(s, driver, name, spec, map0) THEN Return(w, NULL)
        ELSE IF NewFull(w, s) THEN Return(w, NULL)
        ELSE IF need /\ ~supported THEN Return(w, NULL)
        ELSE Return(NewRegister([w1 EXCEPT !.so[o] = obj], o, s), o)

(***************************************************************************)
(* pa_source_output_disconnect                                             *)
(***************************************************************************)
\* Mutant: the output is taken out of the registry and left in s->outputs.
DisconnectBody_LeavesMember(w, o) ==
    LET w1 == [w EXCEPT !.source_outputs = pa_idxset_remove_by_data(@, o)]
        w2 == pa_subscription_post(w1, "REMOVE", w.so[o].index)
    IN  [w2 EXCEPT !.so[o].source = NULL, !.so[o].push = FALSE,
                   !.so[o].state = DISCONNECTED, !.so[o].disconnects = @ + 1]

DisconnectBody(w, o) ==
    LET s == w.so[o].source
        w1 == [w EXCEPT !.source_outputs = pa_idxset_remove_by_data(@, o),
                        !.outputs[s] = pa_idxset_remove_by_data(@, o)]
        w2 == pa_subscription_post(w1, "REMOVE", w.so[o].index)
    IN  [w2 EXCEPT !.so[o].source = NULL, !.so[o].push = FALSE,
                   !.so[o].state = DISCONNECTED, !.so[o].disconnects = @ + 1]

pa_source_output_disconnect(w, o) ==
    IF w.so[o].state = DISCONNECTED \/ w.so[o].source = NULL THEN Abort(w, "assert")
    ELSE DisconnectBody(w, o)

(***************************************************************************)
(* source_output_free, pa_source_output_unref, pa_source_output_ref        *)
(***************************************************************************)
\* pa_xfree(o): what the memory held is gone; the model keeps the state, the
\* index and the counts the object had when it was released.
Freed(obj) == [Unborn EXCEPT !.alloc = "freed", !.ref = obj.ref,
                             !.state = obj.state, !.index = obj.index,
                             !.source = obj.source, !.destroyed = obj.destroyed,
                             !.disconnects = obj.disconnects]

\* Mutant: the object is released without being disconnected.
FreeNeedsDisconnect_Never(w, o) == FALSE

FreeNeedsDisconnect(w, o) == w.so[o].state # DISCONNECTED

source_output_free(w, o, crash) ==
    LET w0 == [w EXCEPT !.so[o].destroyed = @ + 1]
        w1 == IF FreeNeedsDisconnect(w0, o) THEN pa_source_output_disconnect(w0, o) ELSE w0
        w2 == IF w1.so[o].resampler # NULL
              THEN pa_resampler_free(w1, w1.so[o].resampler, crash) ELSE w1
    IN  IF w1.aborted # "no" THEN w1
        ELSE IF w2.aborted # "no" THEN w2
        ELSE [w2 EXCEPT !.so[o] = Freed(@)]

\* Mutant: the object is torn down one reference early.
UnrefFrees_Early(ref) == ref <= 1

UnrefFrees(ref) == ref = 0

pa_source_output_unref(w, o, crash) ==
    IF ~(w.so[o].ref >= 1) THEN Abort(w, "assert")
    ELSE LET w1 == [w EXCEPT !.so[o].ref = @ - 1]
         IN  IF UnrefFrees(w1.so[o].ref) THEN source_output_free(w1, o, crash) ELSE w1

pa_source_output_ref(w, o) ==
    IF ~(w.so[o].ref >= 1) THEN Abort(w, "assert")
    ELSE [w EXCEPT !.so[o].ref = @ + 1]

(***************************************************************************)
(* pa_source_output_push                                                   *)
(***************************************************************************)
\* A pa_memchunk: the block it lies in and its length.
NoChunk == [memblock |-> NULL, length |-> 0]
Chunks == {[memblock |-> 1, length |-> 0], [memblock |-> 1, length |-> 4],
           [memblock |-> 2, length |-> 8]}
\* What pa_resampler_run hands back: nothing, or a chunk in a block of its own.
ResampledLengths == {0, 6}
Resampled(rlen) == [memblock |-> IF rlen = 0 THEN NULL ELSE 3, length |-> rlen]

\* Mutant: the hook is called with the chunk and called again.
Deliver_Twice(w, o, chunk) == [w EXCEPT !.delivered = Append(Append(@, chunk), chunk)]

Deliver(w, o, chunk) == [w EXCEPT !.delivered = Append(@, chunk)]

\* Mutant: the cork gate is left out.
PushGate_Open(state) == FALSE

PushGate(state) == state = CORKED

\* Running a resampler that is not live is undefined: the process dies
\* (crash) or the call goes on with whatever lies there.
PushResampled(w, o, chunk, rlen, crash) ==
    LET h == w.so[o].resampler
        w1 == Do(w, "resampler_run", "", h)
        rchunk == Resampled(rlen)
    IN  IF h \notin w.resamplers /\ crash THEN Abort(w, "segv")
        ELSE IF rchunk.length = 0 THEN w1
        ELSE Do(Deliver(w1, o, rchunk), "memblock_unref", "", rchunk.memblock)

pa_source_output_push(w, o, chunk, rlen, crash) ==
    IF chunk.length = 0 \/ ~w.so[o].push THEN Abort(w, "assert")
    ELSE IF PushGate(w.so[o].state) THEN w
    ELSE IF w.so[o].resampler = NULL THEN Deliver(w, o, chunk)
    ELSE PushResampled(w, o, chunk, rlen, crash)

(***************************************************************************)
(* pa_source_output_set_name                                               *)
(***************************************************************************)
pa_source_output_set_name(w, o, name) ==
    IF ~(w.so[o].ref >= 1) THEN Abort(w, "assert")
    ELSE LET w1 == [w EXCEPT !.so[o].name = name]
         IN  IF w1.so[o].source = NULL THEN Abort(w1, "segv")
             ELSE pa_subscription_post(w1, "CHANGE", w1.so[o].index)

(***************************************************************************)
(* pa_source_output_cork                                                   *)
(***************************************************************************)
\* Mutant: every uncork notifies the source, corked before or not.
CorkNotifies_AnyUncork(state, b) == ~b

CorkNotifies(state, b) == state = CORKED /\ ~b

\* Mutant: cork does not look at DISCONNECTED.
CorkIgnored_Never(state) == FALSE

CorkIgnored(state) == state = DISCONNECTED

pa_source_output_cork(w, o, b) ==
    IF ~(w.so[o].ref >= 1) THEN Abort(w, "assert")
    ELSE IF CorkIgnored(w.so[o].state) THEN w
    ELSE LET n == CorkNotifies(w.so[o].state, b)
             w1 == [w EXCEPT !.so[o].state = IF b THEN CORKED ELSE RUNNING]
         IN  IF n THEN pa_source_notify(w1, w1.so[o].source) ELSE w1

(***************************************************************************)
(* pa_source_output_move_to                                                *)
(***************************************************************************)
\* Mutant: the old resampler is reused only where the output holds none.
MoveReuses_NoStage(w, o, origin, dest) ==
    /\ w.so[o].resampler = NULL
    /\ pa_sample_spec_equal(SourceSpec(origin), SourceSpec(dest))
    /\ pa_channel_map_equal(SourceMap(origin), SourceMap(dest))

\* "Try to reuse the old resampler if possible"
MoveReuses(w, o, origin, dest) ==
    /\ w.so[o].resampler # NULL
    /\ pa_sample_spec_equal(SourceSpec(origin), SourceSpec(dest))
    /\ pa_channel_map_equal(SourceMap(origin), SourceMap(dest))

\* "Okey, we need a new resampler for the new sink"
MoveNeedsResampler(w, o, dest) ==
    \/ ~pa_sample_spec_equal(w.so[o].sample_spec, SourceSpec(dest))
    \/ ~pa_channel_map_equal(w.so[o].channel_map, SourceMap(dest))

\* pa_resampler_new failed: "Unsupported resampling operation."
\* Mutant: the output has left its origin when the construction fails.
MoveFailed_Detached(w, o) ==
    Return([w EXCEPT !.outputs[w.so[o].source] = pa_idxset_remove_by_data(@, o)], -1)

MoveFailed(w, o) == Return(w, -1)

\* The value of the local new_resampler where neither branch assigned it:
\* the declaration has no initializer, so it is whatever the stack holds
\* (garbage: NULL, the address of a live resampler, or of none).
MoveUnassigned(garbage) == garbage

\* "Replace resampler"
MoveReplace(w, o, new_resampler, crash) ==
    IF new_resampler # w.so[o].resampler
    THEN LET w1 == IF w.so[o].resampler # NULL
                   THEN pa_resampler_free(w, w.so[o].resampler, crash) ELSE w
         IN  IF w1.aborted # "no" THEN w1
             ELSE [w1 EXCEPT !.so[o].resampler = new_resampler]
    ELSE w

\* Mutant: the source woken is the origin.
MoveCommit_WakesOrigin(w, o, origin, dest, new_resampler, crash) ==
    IF origin = NULL THEN Abort(w, "segv")
    ELSE LET w1 == [w EXCEPT !.outputs[origin] = pa_idxset_remove_by_data(@, o)]
             w2 == [w1 EXCEPT !.outputs[dest] = pa_idxset_put(@, o), !.so[o].source = dest]
             w3 == MoveReplace(w2, o, new_resampler, crash)
             w4 == pa_subscription_post(w3, "CHANGE", w3.so[o].index)
         IN  IF w3.aborted # "no" THEN w3
             ELSE Return(pa_source_notify(w4, origin), 0)

\* "Okey, let's move it" ... "Notify everyone"
MoveCommit(w, o, origin, dest, new_resampler, crash) ==
    IF origin = NULL THEN Abort(w, "segv")
    ELSE LET w1 == [w EXCEPT !.outputs[origin] = pa_idxset_remove_by_data(@, o)]
             w2 == [w1 EXCEPT !.outputs[dest] = pa_idxset_put(@, o), !.so[o].source = dest]
             w3 == MoveReplace(w2, o, new_resampler, crash)
             w4 == pa_subscription_post(w3, "CHANGE", w3.so[o].index)
         IN  IF w3.aborted # "no" THEN w3
             ELSE Return(pa_source_notify(w4, w4.so[o].source), 0)

\* Mutant: the ceiling is compared with > instead of >=.
MoveFull_OffByOne(w, dest) == pa_idxset_size(w.outputs[dest]) > PA_MAX_OUTPUTS_PER_SOURCE

\* "too many outputs per source"
MoveFull(w, dest) == pa_idxset_size(w.outputs[dest]) >= PA_MAX_OUTPUTS_PER_SOURCE

pa_source_output_move_to(w, o, dest, supported, garbage, crash) ==
    LET origin == w.so[o].source
    IN  IF ~(w.so[o].ref >= 1) THEN Abort(w, "assert")
        ELSE IF dest = origin THEN Return(w, 0)
        ELSE IF MoveFull(w, dest) THEN Return(w, -1)
        ELSE IF w.so[o].resampler # NULL /\ origin = NULL THEN Abort(w, "segv")
        ELSE IF MoveReuses(w, o, origin, dest)
             THEN MoveCommit(w, o, origin, dest, w.so[o].resampler, crash)
        ELSE IF MoveNeedsResampler(w, o, dest)
             THEN IF supported
                  THEN MoveCommit(pa_resampler_new(w), o, origin, dest, FreeHandle(w), crash)
                  ELSE MoveFailed(w, o)
        ELSE MoveCommit(w, o, origin, dest, MoveUnassigned(garbage), crash)

(***************************************************************************)
(* Specification                                                           *)
(***************************************************************************)
\* Where a pa_source_output_push that runs in a context of its own stands:
\* the line it is to execute next (pc), its arguments, the o->resampler it
\* has loaded (h), and whether it has used a freed resampler or a cleared
\* hook (fault).
RtIdle == [pc |-> "idle", o |-> 0, chunk |-> NoChunk, h |-> NULL, fault |-> "none"]

Init ==
    /\ so = [o \in Objects |-> Unborn]
    /\ source_outputs = EmptyIdxset
    /\ outputs = [s \in Sources |-> EmptyIdxset]
    /\ resamplers = {}
    /\ effects = <<>>
    /\ delivered = <<>>
    /\ aborted = "no"
    /\ call = [op |-> "init", o |-> 0, arg |-> 0, chunk |-> NoChunk, ret |-> 0,
               found |-> TRUE]
    /\ rt = RtIdle

\* The world after a handler, or after a step of one, becomes the state.
Commit(w, op, o, arg, chunk) ==
    /\ \A s \in Sources : w.outputs[s].next <= MaxIndex
    /\ so' = w.so
    /\ source_outputs' = w.source_outputs
    /\ outputs' = w.outputs
    /\ resamplers' = w.resamplers
    /\ effects' = w.effects
    /\ delivered' = w.delivered
    /\ aborted' = w.aborted
    /\ call' = [op |-> op, o |-> o, arg |-> arg, chunk |-> chunk, ret |-> w.ret,
                found |-> w.found]

\* A handler called from the main loop runs from its first line to its
\* return.
StepWith(w, op, o, arg, chunk) == Commit(w, op, o, arg, chunk) /\ rt' = rt
Step(w, op, o, arg) == StepWith(w, op, o, arg, NoChunk)

\* The caller of a handler holds a reference to the object it passes.
Live(o) == so[o].alloc = "live"

\* xmalloc hands out the lowest address never used for a source output.
NextObject(objs) ==
    CHOOSE o \in objs : so[o].alloc = "unborn" /\ \A p \in objs : p < o => so[p].alloc # "unborn"

Create(objs, clients) ==
    /\ aborted = "no"
    /\ \E o \in objs : so[o].alloc = "unborn"
    /\ \E s \in Sources, c \in clients, spec \in SampleSpecs,
          map \in ChannelMaps, supported \in BOOLEAN :
          Step(pa_source_output_new(World, NextObject(objs), s, c.driver, c.name, spec, map,
                                    c.method, supported), "new", NextObject(objs), s)

\* The outcomes of using o->resampler: where it holds the address of no
\* live resampler, the use is undefined and may end the process or not.
Crashes(o) == IF so[o].resampler \in resamplers \cup {NULL} THEN {FALSE} ELSE BOOLEAN

Disconnect(objs) ==
    /\ aborted = "no"
    /\ \E o \in objs :
          /\ Live(o)
          /\ Step(pa_source_output_disconnect(World, o), "disconnect", o, 0)

Unref(objs) ==
    /\ aborted = "no"
    /\ \E o \in objs : \E crash \in Crashes(o) :
          /\ Live(o)
          /\ Step(pa_source_output_unref(World, o, crash), "unref", o, 0)

Ref(objs) ==
    /\ aborted = "no"
    /\ \E o \in objs :
          /\ Live(o)
          /\ so[o].ref < MaxRef
          /\ Step(pa_source_output_ref(World, o), "ref", o, 0)

\* The creator of a source output fills in its hooks once
\* pa_source_output_new has returned.
AttachHooks(objs) ==
    /\ aborted = "no"
    /\ \E o \in objs :
          /\ Live(o)
          /\ so[o].state # DISCONNECTED
          /\ ~so[o].push
          /\ Step([World EXCEPT !.so[o].push = TRUE], "attach", o, 0)

Push(objs) ==
    /\ aborted = "no"
    /\ \E o \in objs, chunk \in Chunks, rlen \in ResampledLengths :
       \E crash \in Crashes(o) :
          /\ Live(o)
          /\ StepWith(pa_source_output_push(World, o, chunk, rlen, crash), "push", o, 0, chunk)

SetName(objs) ==
    /\ aborted = "no"
    /\ \E o \in objs, name \in NewNames :
          /\ Live(o)
          /\ Step(pa_source_output_set_name(World, o, name), "set_name", o, 0)

Cork(objs) ==
    /\ aborted = "no"
    /\ \E o \in objs, b \in BOOLEAN :
          /\ Live(o)
          /\ Step(pa_source_output_cork(World, o, b), "cork", o, IF b THEN 1 ELSE 0)

\* What an uninitialized pointer can hold: NULL, the address the object's
\* own field holds, the address of a live resampler, or an address of none.
Garbage(o) == {NULL, so[o].resampler, FreeHandle(World)} \cup resamplers

MoveTo(objs) ==
    /\ aborted = "no"
    /\ \E o \in objs, dest \in Sources, supported \in BOOLEAN :
       \E garbage \in Garbage(o), crash \in Crashes(o) :
          /\ Live(o)
          /\ Step(pa_source_output_move_to(World, o, dest, supported, garbage, crash),
                  "move_to", o, dest)

\* One source output, with every operation of the file and every input.
Solo == {1}

Next ==
    \/ Create(Solo, Clients) \/ Disconnect(Solo) \/ Unref(Solo) \/ Ref(Solo)
    \/ AttachHooks(Solo) \/ Push(Solo) \/ SetName(Solo) \/ Cork(Solo) \/ MoveTo(Solo)

Spec == Init /\ [][Next]_vars

\* Several source outputs of one plain client, registered, moved and
\* released side by side.
PlainClients == {[driver |-> NoString, name |-> "rec", method |-> PA_RESAMPLER_INVALID]}
\* The plain client, and the calls that pass a malformed driver or name.
MultiClients ==
    PlainClients \cup {c \in Clients : ~pa_utf8_valid(c.driver) \/ ~pa_utf8_valid(c.name)}

NextMulti ==
    \/ Create(Objects, MultiClients) \/ Disconnect(Objects) \/ Unref(Objects)
    \/ MoveTo(Objects)

SpecMulti == Init /\ [][NextMulti]_vars

(***************************************************************************)
(* pa_source_output_push line by line, in a context of its own, with the   *)
(* handlers of the main loop running between its lines.  The file has no   *)
(* lock and no atomic access: every read of a field sees what the main     *)
(* loop wrote last, and a read of a released object is undefined.          *)
(***************************************************************************)
\* What a read of a field of o yields: the field, or, once the object has
\* been released, whatever lies in the memory it occupied.
ReadState(o) == IF Live(o) THEN {so[o].state} ELSE {RUNNING, CORKED, DISCONNECTED}
ReadResampler(o) == IF Live(o) THEN {so[o].resampler} ELSE {NULL, FreeHandle(World)}
ReadPush(o) == IF Live(o) THEN {so[o].push} ELSE BOOLEAN

RtStep(w, r) == Commit(w, "push", r.o, 0, r.chunk) /\ rt' = r

\* assert(chunk->length); assert(o->push);
PushEnter(objs) ==
    /\ aborted = "no"
    /\ rt.pc = "idle"
    /\ \E o \in objs, chunk \in Chunks :
          /\ Live(o)
          /\ IF chunk.length = 0 \/ ~so[o].push
             THEN RtStep(Abort(World, "assert"), [rt EXCEPT !.o = o, !.chunk = chunk])
             ELSE RtStep(World, [rt EXCEPT !.pc = "cork", !.o = o, !.chunk = chunk])

\* if (o->state == PA_SOURCE_OUTPUT_CORKED) return;
PushCork ==
    /\ aborted = "no"
    /\ rt.pc = "cork"
    /\ \E state \in ReadState(rt.o) :
          IF PushGate(state) THEN RtStep(World, [rt EXCEPT !.pc = "idle"])
          ELSE RtStep(World, [rt EXCEPT !.pc = "stage"])

\* if (!o->resampler) ...
PushStage ==
    /\ aborted = "no"
    /\ rt.pc = "stage"
    /\ \E h \in ReadResampler(rt.o) :
          IF h = NULL THEN RtStep(World, [rt EXCEPT !.pc = "hook"])
          ELSE RtStep(World, [rt EXCEPT !.pc = "run", !.h = h])

\* pa_resampler_run(o->resampler, chunk, &rchunk); if (!rchunk.length) return;
\* The address passed is the one loaded for the test or one loaded again.
\* Running a resampler that has been freed is undefined: the process dies
\* (crash) or the call goes on with whatever lies there.
PushRun ==
    /\ aborted = "no"
    /\ rt.pc = "run"
    /\ \E h \in {rt.h} \cup ReadResampler(rt.o), rlen \in ResampledLengths, crash \in BOOLEAN :
          LET freed == h \notin resamplers /\ h # NULL
              r == [rt EXCEPT !.fault = IF freed THEN "freed_stage" ELSE @]
              w == Do(World, "resampler_run", "", h)
          IN  IF h = NULL \/ (freed /\ crash) THEN RtStep(Abort(World, "segv"), r)
              ELSE IF rlen = 0 THEN RtStep(w, [r EXCEPT !.pc = "idle"])
              ELSE RtStep(w, [r EXCEPT !.pc = "hook", !.chunk = Resampled(rlen)])

\* o->push(o, chunk) or o->push(o, &rchunk); pa_memblock_unref(rchunk.memblock);
\* The hook called is what o->push holds now: NULL once disconnect has
\* cleared it, anything once the object has been released.
PushHook ==
    /\ aborted = "no"
    /\ rt.pc = "hook"
    /\ \E hook \in ReadPush(rt.o) :
          LET cleared == ~Live(rt.o) \/ ~so[rt.o].push
              r == [rt EXCEPT !.pc = "idle", !.fault = IF cleared THEN "cleared_hook" ELSE @]
              w == Deliver(World, rt.o, rt.chunk)
          IN  IF ~hook THEN RtStep(Abort(World, "segv"), r)
              ELSE IF rt.chunk.memblock = Resampled(6).memblock
                   THEN RtStep(Do(w, "memblock_unref", "", rt.chunk.memblock), r)
              ELSE RtStep(w, r)

NextInterleaved ==
    \/ Create(Solo, PlainClients) \/ AttachHooks(Solo) \/ Cork(Solo) \/ MoveTo(Solo)
    \/ Disconnect(Solo) \/ Unref(Solo)
    \/ PushEnter(Solo) \/ PushCork \/ PushStage \/ PushRun \/ PushHook

SpecInterleaved == Init /\ [][NextInterleaved]_vars

(***************************************************************************)
(* The claims.                                                             *)
(***************************************************************************)
Created(o) == so[o].alloc # "unborn"
Connected(o) == so[o].alloc = "live" /\ so[o].state # DISCONNECTED
InRegistry(o) == \E e \in source_outputs.entries : e[2] = o
MemberOf(o) == {s \in Sources : \E e \in outputs[s].entries : e[2] = o}
MemberOfNext(o) == {s \in Sources : \E e \in outputs'[s].entries : e[2] = o}
Notifies == {i \in 1..Len(effects) : effects[i].e = "notify"}
Calls(fx, e) == {i \in 1..Len(fx) : fx[i].e = e}
ShapeOfOutput(o) == <<so[o].sample_spec, so[o].channel_map>>
ShapeOfSource(s) == <<SourceSpec(s), SourceMap(s)>>

\* C1: every source output that was created is either in the registry and
\* in the member set of the source it is associated with and of no other,
\* or it is DISCONNECTED, associated with no source and in no collection.
C1_MembershipAllOrNothing ==
    \A o \in Objects : Created(o) =>
        \/ /\ so[o].source # NULL
           /\ InRegistry(o)
           /\ MemberOf(o) = {so[o].source}
        \/ /\ so[o].state = DISCONNECTED
           /\ so[o].source = NULL
           /\ ~InRegistry(o)
           /\ MemberOf(o) = {}

\* A move took the output to another source, whose member set now holds it
\* under a key of its own.
C1_Witness ==
    \E o \in Objects :
        /\ call.op = "move_to" /\ call.o = o /\ call.ret = 0 /\ aborted = "no"
        /\ Notifies # {}
        /\ so[o].source = call.arg
        /\ MemberOf(o) = {call.arg}
        /\ so[o].resampler # NULL

\* C2: a move of a connected output to another source that fails because
\* the new resampler cannot be built changes nothing: the heap, the
\* registry, every member set and the live resamplers are as before, and
\* no event is posted and no source notified.
C2_FailedMoveChangesNothing ==
    [][(/\ call'.op = "move_to" /\ call'.ret = -1
        /\ Connected(call'.o)
        /\ pa_idxset_size(outputs[call'.arg]) < PA_MAX_OUTPUTS_PER_SOURCE)
       => (/\ so' = so
           /\ source_outputs' = source_outputs
           /\ outputs' = outputs
           /\ resamplers' = resamplers
           /\ Calls(effects', "post") = {}
           /\ Calls(effects', "notify") = {}
           /\ Calls(effects', "resampler_free") = {})]_vars

\* A move of an output that holds a stage has just failed for want of a
\* new stage.
C2_Witness ==
    \E o \in Objects :
        /\ call.op = "move_to" /\ call.o = o /\ call.ret = -1
        /\ Connected(o)
        /\ so[o].source # call.arg
        /\ so[o].resampler \in resamplers
        /\ MemberOf(o) = {so[o].source}

\* C3: a step that creates a connected output, or moves one, leaves it with
\* a stage if and only if its shape differs from the shape of its source,
\* unless the step is a move that kept the stage under the reuse rule (a
\* stage existed and origin and destination have the same shape).
C3_StageIffShapesDiffer ==
    [][\A o \in Objects :
          (/\ so'[o].alloc = "live" /\ so'[o].state # DISCONNECTED
           /\ aborted' = "no"
           /\ (so[o].alloc = "unborn" \/ so'[o].source # so[o].source))
          => \/ (so'[o].resampler # NULL) <=>
                   (<<so'[o].sample_spec, so'[o].channel_map>> # ShapeOfSource(so'[o].source))
             \/ /\ so[o].alloc = "live"
                /\ so[o].resampler # NULL
                /\ so'[o].resampler = so[o].resampler
                /\ ShapeOfSource(so[o].source) = ShapeOfSource(so'[o].source)]_vars

\* C4: a successful move of a connected output to another source, where the
\* reuse rule does not apply and the output's shape is the destination's,
\* leaves the output without a stage, and the stage it held is freed.
C4_NoStageWhenShapesMatch ==
    [][\A o \in Objects :
          (/\ call'.op = "move_to" /\ call'.o = o /\ call'.ret = 0 /\ aborted' = "no"
           /\ Connected(o)
           /\ so[o].source # call'.arg
           /\ (so[o].resampler = NULL
               \/ ShapeOfSource(so[o].source) # ShapeOfSource(call'.arg))
           /\ ShapeOfOutput(o) = ShapeOfSource(call'.arg))
          => /\ so'[o].resampler = NULL
             /\ (so[o].resampler # NULL => so[o].resampler \notin resamplers')]_vars

\* C5: once an output is DISCONNECTED, no step changes its state, gives it
\* a source, puts it into a member set or the registry, or calls its hook.
C5_DisconnectedIsTerminal ==
    [][\A o \in Objects :
          (Created(o) /\ so[o].state = DISCONNECTED)
          => /\ so'[o].state = DISCONNECTED
             /\ so'[o].source = NULL
             /\ MemberOfNext(o) = {}
             /\ \A e \in source_outputs'.entries : e[2] # o
             /\ (call'.o = o => delivered' = <<>>)]_vars

\* A cork call has been made on a disconnected output that is still held.
C5_Witness ==
    \E o \in Objects :
        /\ so[o].alloc = "live" /\ so[o].state = DISCONNECTED
        /\ call.op = "cork" /\ call.o = o /\ call.arg = 0
        /\ aborted = "no"

\* C6: teardown runs in a step if and only if the step is the unref that
\* takes the count from 1 to 0; it runs once per object, and the count of
\* an object it has run on is 0.
C6_TeardownOnceAtZero ==
    [][\A o \in Objects :
          /\ (so'[o].destroyed # so[o].destroyed)
             => /\ call'.op = "unref" /\ call'.o = o
                /\ so[o].ref = 1 /\ so'[o].ref = 0
                /\ so[o].destroyed = 0 /\ so'[o].destroyed = 1
          /\ (so[o].alloc = "live" /\ so'[o].ref = 0) => so'[o].destroyed = 1
          /\ (so'[o].destroyed > 0) => so'[o].ref = 0]_vars

\* The last unref has torn the object down and released it.
C6_Witness ==
    \E o \in Objects :
        /\ so[o].alloc = "freed" /\ so[o].destroyed = 1 /\ so[o].ref = 0
        /\ call.op = "unref" /\ call.o = o

\* C7: the step that releases an object leaves it DISCONNECTED and in no
\* collection, having disconnected it exactly once in its life: first
\* thing in that step when it was still connected, and not in that step
\* when it was disconnected before.
C7_ReleasedOnlyDisconnected ==
    [][\A o \in Objects :
          (so[o].alloc = "live" /\ so'[o].alloc = "freed")
          => /\ so'[o].state = DISCONNECTED
             /\ so'[o].source = NULL
             /\ \A e \in source_outputs'.entries : e[2] # o
             /\ MemberOfNext(o) = {}
             /\ so'[o].disconnects = 1
             /\ (so[o].state # DISCONNECTED
                 => /\ effects' # <<>>
                    /\ effects'[1] = Effect("post", "REMOVE", so[o].index))
             /\ (so[o].state = DISCONNECTED => Calls(effects', "post") = {})]_vars

\* The last unref reached a connected output that held a stage: it was
\* disconnected, then its stage freed, then it was released.
C7_Witness ==
    \E o \in Objects :
        /\ so[o].alloc = "freed"
        /\ call.op = "unref" /\ call.o = o
        /\ Len(effects) = 2
        /\ effects[1].k = "REMOVE"
        /\ effects[2].e = "resampler_free"

\* C8: a cork call on a connected output notifies the output's source once
\* when the output was CORKED and the flag is false, and not otherwise.
C8_WakeOnUncorkEdgeOnly ==
    [][(call'.op = "cork" /\ Connected(call'.o) /\ aborted' = "no")
       => LET fx == effects'
          IN  IF so[call'.o].state = CORKED /\ call'.arg = 0
              THEN fx = <<Effect("notify", "", so[call'.o].source)>>
              ELSE Calls(fx, "notify") = {}]_vars

\* Cork(false) has just taken an output from CORKED to RUNNING.
C8_Witness ==
    \E o \in Objects :
        /\ call.op = "cork" /\ call.o = o /\ call.arg = 0
        /\ so[o].state = RUNNING
        /\ Notifies # {}

\* C9: a push on a CORKED output calls no hook and runs no resampler.
C9_CorkedPushDeliversNothing ==
    [][(call'.op = "push" /\ so[call'.o].state = CORKED)
       => /\ delivered' = <<>>
          /\ Calls(effects', "resampler_run") = {}]_vars

\* A chunk has been pushed to a CORKED output that has a hook and a stage.
C9_Witness ==
    \E o \in Objects :
        /\ call.op = "push" /\ call.o = o /\ call.chunk.length > 0
        /\ aborted = "no"
        /\ so[o].state = CORKED /\ so[o].push /\ so[o].resampler \in resamplers
        /\ delivered = <<>>

\* C10: a push of a chunk on a RUNNING output that has a hook and no stage
\* calls the hook once, with that chunk.
C10_RunningPushDeliversVerbatim ==
    [][(/\ call'.op = "push"
        /\ call'.chunk.length > 0
        /\ so[call'.o].push
        /\ so[call'.o].state = RUNNING
        /\ so[call'.o].resampler = NULL)
       => /\ delivered' = <<call'.chunk>>
          /\ aborted' = "no"
          /\ Calls(effects', "resampler_run") = {}]_vars

\* The second kind of chunk has been pushed through an output with no stage.
C10_Witness ==
    \E o \in Objects :
        /\ call.op = "push" /\ call.o = o /\ call.chunk.memblock = 2
        /\ so[o].state = RUNNING /\ so[o].resampler = NULL
        /\ delivered = <<call.chunk>>

\* C11: a pa_source_output_new that returns NULL, and every one on a source
\* whose member set is at the ceiling, returns NULL and leaves the registry,
\* every member set, every object and the live resamplers as they were, and
\* posts no event.
C11_FailedCreateChangesNothing ==
    [][(/\ call'.op = "new"
        /\ \/ call'.ret = NULL
           \/ pa_idxset_size(outputs[call'.arg]) >= PA_MAX_OUTPUTS_PER_SOURCE)
       => /\ call'.ret = NULL
          /\ source_outputs' = source_outputs
          /\ outputs' = outputs
          /\ pa_idxset_size(outputs'[call'.arg]) = pa_idxset_size(outputs[call'.arg])
          /\ so' = so
          /\ resamplers' = resamplers
          /\ Calls(effects', "post") = {}]_vars

\* A create on a source whose member set is at the ceiling has returned NULL
\* while another object is still to be made.
C11_Witness ==
    /\ call.op = "new" /\ call.ret = NULL
    /\ pa_idxset_size(outputs[call.arg]) >= PA_MAX_OUTPUTS_PER_SOURCE
    /\ \E o \in Objects : so[o].alloc = "unborn"
    /\ effects = <<>>

\* The calls of pa_source_output_new C12 is about: the next object, any
\* source, any client, a valid sample spec and a valid channel map of as many
\* channels.
ValidShapes ==
    {sh \in SampleSpecs \X (ChannelMaps \ {NoMap}) :
        /\ pa_sample_spec_valid(sh[1])
        /\ pa_channel_map_valid(sh[2])
        /\ Len(sh[2]) = sh[1].channels}
\* The output a call returns has the shape passed, is RUNNING and holds the
\* one reference of its creator.
CreatedAs(w, o, sh) ==
    /\ w.ret = o
    /\ w.aborted = "no"
    /\ w.so[o].alloc = "live"
    /\ w.so[o].sample_spec = sh[1]
    /\ w.so[o].channel_map = sh[2]
    /\ w.so[o].state = RUNNING
    /\ w.so[o].ref = 1

\* C12 as stated: from every state in which an object can still be made,
\* pa_source_output_new with a valid sample spec and a valid channel map of
\* as many channels returns an output of that shape, RUNNING, with one
\* reference.
C12_ValidShapeCreates ==
    (aborted = "no" /\ \E p \in Objects : so[p].alloc = "unborn") =>
        \A s \in Sources, c \in Clients, sh \in ValidShapes, supported \in BOOLEAN :
            CreatedAs(pa_source_output_new(World, NextObject(Objects), s, c.driver, c.name,
                                           sh[1], sh[2], c.method, supported),
                      NextObject(Objects), sh)

\* C12 amended: the same where the name and the driver are valid UTF-8, the
\* source is below its ceiling, and the resampler is supported where the
\* shape differs from the source's.
C12_ValidCallCreates ==
    (aborted = "no" /\ \E p \in Objects : so[p].alloc = "unborn") =>
        \A s \in Sources, c \in Clients, sh \in ValidShapes, supported \in BOOLEAN :
            (/\ c.driver = NoString \/ pa_utf8_valid(c.driver)
             /\ pa_utf8_valid(c.name)
             /\ pa_idxset_size(outputs[s]) < PA_MAX_OUTPUTS_PER_SOURCE
             /\ supported \/ ShapeOfSource(s) = sh)
            => CreatedAs(pa_source_output_new(World, NextObject(Objects), s, c.driver, c.name,
                                              sh[1], sh[2], c.method, supported),
                         NextObject(Objects), sh)

\* A second output has been created with a valid shape that differs from its
\* source's, while the first is still connected.
C12_Witness ==
    /\ call.op = "new" /\ call.o = 2 /\ call.ret = 2
    /\ Connected(1)
    /\ <<so[2].sample_spec, so[2].channel_map>> \in ValidShapes
    /\ ShapeOfOutput(2) # ShapeOfSource(so[2].source)
    /\ so[2].state = RUNNING /\ so[2].ref = 1

MoveLeftAlone ==
    /\ so' = so
    /\ outputs' = outputs
    /\ source_outputs' = source_outputs
    /\ resamplers' = resamplers
    /\ Calls(effects', "post") = {}
    /\ Calls(effects', "notify") = {}
    /\ aborted' = "no"

\* C14 as stated: pa_source_output_move_to to a destination whose member set
\* is at the ceiling returns -1 and changes nothing, posts no CHANGE and
\* wakes no source.
C14_FullDestinationRefused ==
    [][(/\ call'.op = "move_to"
        /\ pa_idxset_size(outputs[call'.arg]) >= PA_MAX_OUTPUTS_PER_SOURCE)
       => (call'.ret = -1 /\ MoveLeftAlone)]_vars

\* C14 amended: the same for a destination that is not the source of the
\* output; a move to the output's own source returns 0, and changes nothing
\* either.
C14_OtherFullDestinationRefused ==
    [][(/\ call'.op = "move_to"
        /\ pa_idxset_size(outputs[call'.arg]) >= PA_MAX_OUTPUTS_PER_SOURCE)
       => /\ call'.ret = (IF so[call'.o].source = call'.arg THEN 0 ELSE -1)
          /\ MoveLeftAlone]_vars

\* A connected output has been refused by another source that holds as many
\* outputs as the ceiling allows.
C14_Witness ==
    /\ call.op = "move_to" /\ call.ret = -1
    /\ Connected(call.o)
    /\ so[call.o].source # call.arg
    /\ pa_idxset_size(outputs[call.arg]) >= PA_MAX_OUTPUTS_PER_SOURCE
    /\ effects = <<>>

\* The moves C15 is about: a connected output that holds a stage, to a
\* source other than its own whose shape equals the shape of its own.
ReuseCase ==
    /\ call'.op = "move_to"
    /\ Connected(call'.o)
    /\ so[call'.o].resampler # NULL
    /\ so[call'.o].source # call'.arg
    /\ ShapeOfSource(so[call'.o].source) = ShapeOfSource(call'.arg)
\* The move has succeeded with the stage the output held, no stage built and
\* none freed, and the output in the member set of the destination only.
Reused ==
    /\ call'.ret = 0
    /\ aborted' = "no"
    /\ Calls(effects', "resampler_new") = {}
    /\ Calls(effects', "resampler_free") = {}
    /\ resamplers' = resamplers
    /\ so'[call'.o].resampler = so[call'.o].resampler
    /\ so'[call'.o].source = call'.arg
    /\ MemberOfNext(call'.o) = {call'.arg}

\* C15 as stated: a move of an output that holds a stage between two sources
\* of equal shape succeeds and keeps the stage.
C15_EqualSourcesReuseStage == [][ReuseCase => Reused]_vars

\* C15 amended: the same where the destination is below the ceiling.
C15_EqualSourcesWithRoomReuseStage ==
    [][(/\ ReuseCase
        /\ pa_idxset_size(outputs[call'.arg]) < PA_MAX_OUTPUTS_PER_SOURCE)
       => Reused]_vars

\* An output whose shape differs from its source's has been moved, with the
\* live stage it was created with, while the other output is connected.
C15_Witness ==
    \E o \in Objects :
        /\ call.op = "move_to" /\ call.o = o /\ call.ret = 0
        /\ Calls(effects, "post") # {}
        /\ Calls(effects, "resampler_new") = {}
        /\ Calls(effects, "resampler_free") = {}
        /\ so[o].resampler \in resamplers
        /\ ShapeOfOutput(o) # ShapeOfSource(call.arg)
        /\ MemberOf(o) = {call.arg}
        /\ \E p \in Objects \ {o} : Connected(p)

\* The events and wakes among the effects of a call, in their order.
IsSignal(fx) == fx.e \in {"post", "notify"}
Signals(fxs) == SelectSeq(fxs, IsSignal)

\* C16: a pa_source_output_move_to that returns 0 for a connected output and
\* a source other than its own leaves the output in the member set of the
\* destination only, with o->source the destination; posts one CHANGE for its
\* index and then wakes the destination once, and nothing else; and leaves
\* the registry, the index, the state, the shape and the reference count as
\* they were.
C16_MoveFrame ==
    [][(/\ call'.op = "move_to"
        /\ call'.ret = 0
        /\ aborted' = "no"
        /\ Connected(call'.o)
        /\ so[call'.o].source # call'.arg)
       => /\ MemberOfNext(call'.o) = {call'.arg}
          /\ so'[call'.o].source = call'.arg
          /\ Signals(effects') = << Effect("post", "CHANGE", so[call'.o].index),
                                    Effect("notify", "", call'.arg) >>
          /\ source_outputs' = source_outputs
          /\ so'[call'.o].index = so[call'.o].index
          /\ so'[call'.o].state = so[call'.o].state
          /\ so'[call'.o].state \in {RUNNING, CORKED}
          /\ so'[call'.o].sample_spec = so[call'.o].sample_spec
          /\ so'[call'.o].channel_map = so[call'.o].channel_map
          /\ so'[call'.o].ref = so[call'.o].ref]_vars

\* A CORKED output with two references has been moved to a source of another
\* shape, with a stage built for it.
C16_Witness ==
    \E o \in Objects :
        /\ call.op = "move_to" /\ call.o = o /\ call.ret = 0
        /\ aborted = "no"
        /\ so[o].state = CORKED /\ so[o].ref = 2
        /\ so[o].source = call.arg /\ MemberOf(o) = {call.arg}
        /\ Calls(effects, "resampler_new") # {}
        /\ Signals(effects) = << Effect("post", "CHANGE", so[o].index),
                                 Effect("notify", "", call.arg) >>

\* C17: a cork, set_name, move_to, push or disconnect of an output that is
\* DISCONNECTED either returns with nothing changed, or fails an assert with
\* nothing changed; it never dereferences the cleared o->source.
C17_DisconnectedCallsInert ==
    [][(/\ call'.op \in {"cork", "set_name", "move_to", "push", "disconnect"}
        /\ so[call'.o].alloc = "live"
        /\ so[call'.o].state = DISCONNECTED)
       => /\ aborted' \in {"no", "assert"}
          /\ so' = so
          /\ source_outputs' = source_outputs
          /\ outputs' = outputs
          /\ resamplers' = resamplers
          /\ effects' = <<>>
          /\ delivered' = <<>>]_vars

\* C18: no member set of a source ever holds more outputs than
\* PA_MAX_OUTPUTS_PER_SOURCE.
C18_CeilingHolds ==
    \A s \in Sources : pa_idxset_size(outputs[s]) <= PA_MAX_OUTPUTS_PER_SOURCE

\* Every output there can be is connected, one source is at the ceiling and
\* has just refused a move to it.
C18_Witness ==
    /\ \A o \in Objects : Connected(o)
    /\ call.op = "move_to" /\ call.ret = -1
    /\ so[call.o].source # call.arg
    /\ pa_idxset_size(outputs[call.arg]) = PA_MAX_OUTPUTS_PER_SOURCE

\* The life of an index as the registry shows it: not assigned yet, assigned
\* and in the registry, or assigned and out of it.
Keys(set) == {e[1] : e \in set.entries}
Unassigned(i) == i >= source_outputs.next
Listed(i) == i \in Keys(source_outputs)
Delisted(i) == i < source_outputs.next /\ i \notin Keys(source_outputs)
Posts(fxs, i) == {n \in 1..Len(fxs) : fxs[n].e = "post" /\ fxs[n].x = i}
PostedKinds(fxs, i) == {fxs[n].k : n \in Posts(fxs, i)}

\* C19: in every call, for every index: at most one event is posted for it;
\* for an index not assigned yet the event can only be NEW, it is posted
\* exactly by the call that assigns the index, with the output in the
\* registry and in the member set of its source when it is posted; for an
\* index in the registry the event is CHANGE or REMOVE, and REMOVE is posted
\* exactly by the call that takes the index out of the registry, be it
\* disconnect or the last unref; for an index taken out nothing is posted
\* and it stays out; and an output is released only with its index out of
\* the registry.
C19_EventsFollowLife ==
    [][/\ \A i \in 0..MaxIndex :
            /\ Cardinality(Posts(effects', i)) <= 1
            /\ Unassigned(i) =>
                 /\ PostedKinds(effects', i) \subseteq {"NEW"}
                 /\ ("NEW" \in PostedKinds(effects', i)) <=> (i \in Keys(source_outputs'))
                 /\ ("NEW" \in PostedKinds(effects', i)) => (call'.op = "new" /\ call'.found)
            /\ Listed(i) =>
                 /\ PostedKinds(effects', i) \subseteq {"CHANGE", "REMOVE"}
                 /\ ("REMOVE" \in PostedKinds(effects', i)) <=> (i \notin Keys(source_outputs'))
                 /\ ("REMOVE" \in PostedKinds(effects', i)) => (call'.op \in {"disconnect", "unref"})
            /\ Delisted(i) =>
                 /\ Posts(effects', i) = {}
                 /\ i \notin Keys(source_outputs')
       /\ \A o \in Objects :
            (so[o].alloc = "live" /\ so'[o].alloc # "live")
            => (so[o].index < source_outputs'.next /\ so[o].index \notin Keys(source_outputs'))
      ]_vars

\* The last unref of a connected output has posted REMOVE for its index and
\* released it.
C19_Witness ==
    \E o \in Objects :
        /\ call.op = "unref" /\ call.o = o
        /\ aborted = "no"
        /\ so[o].alloc # "live" /\ so[o].destroyed = 1
        /\ PostedKinds(effects, 0) = {"REMOVE"}
        /\ Delisted(0)

\* C20: a pa_source_output_push whose lines interleave with move_to,
\* disconnect or the last unref of the same output never passes a resampler
\* that has been freed to pa_resampler_run and never calls o->push after it
\* has been cleared.
C20_PushUsesLiveStageAndHook == rt.fault = "none"

=============================================================================
